---- MODULE Spec2Model ----
(***************************************************************************)
(* A model of TinyExpr-C89 (src/tinyexpr.c): the tokenizer next_token, the *)
(* recursive-descent parser list/expr/term/factor/power/base, the node     *)
(* allocator new_expr / te_free, the constant folder optimize, te_eval,    *)
(* te_compile and te_interp.                                               *)
(*                                                                         *)
(* The source text is a sequence of one-character strings followed by a    *)
(* NUL.  Nodes live in a heap indexed by allocation order; a pointer is an *)
(* index into it, NULL is 0.  A double is a record: exact when it is an    *)
(* integer of moderate size, a symbolic application otherwise.             *)
(***************************************************************************)
EXTENDS Integers, Sequences, FiniteSets, TLC

(***************************************************************************)
(* Bounds of the model.                                                    *)
(***************************************************************************)
\* longest expression, in lexemes, of the exhaustive part of the inputs
MaxLex == 3
\* most arguments written in the generated function calls
MaxArgs == 3
\* integers beyond this magnitude are kept symbolic; its square is below 2^31
MaxExact == 40000

(***************************************************************************)
(* Type codes.  TE_VARIABLE, TE_FUNCTION0.., TE_CLOSURE0.. and             *)
(* TE_FLAG_PURE come from tinyexpr.h; the masks of TYPE_MASK, IS_PURE,     *)
(* IS_FUNCTION, IS_CLOSURE and ARITY fix their layout: arity in bits 0..2, *)
(* the function bit 8, the closure bit 16, the pure flag above the 0x1F    *)
(* mask.                                                                   *)
(***************************************************************************)
TE_VARIABLE == 0
TE_CONSTANT == 1
TE_FUNCTION0 == 8
TE_CLOSURE0 == 16
TE_FLAG_PURE == 32

TOK_NULL == TE_CLOSURE0 + 7 + 1
TOK_ERROR == TOK_NULL + 1
TOK_END == TOK_NULL + 2
TOK_SEP == TOK_NULL + 3
TOK_OPEN == TOK_NULL + 4
TOK_CLOSE == TOK_NULL + 5
TOK_NUMBER == TOK_NULL + 6
TOK_VARIABLE == TOK_NULL + 7
TOK_INFIX == TOK_NULL + 8

TYPE_MASK(t) == t % 32
IS_PURE(t) == (t \div TE_FLAG_PURE) % 2 = 1
IS_FUNCTION(t) == (t \div TE_FUNCTION0) % 2 = 1
IS_CLOSURE(t) == (t \div TE_CLOSURE0) % 2 = 1
ARITY(t) == IF IS_FUNCTION(t) \/ IS_CLOSURE(t) THEN t % 8 ELSE 0

(***************************************************************************)
(* Pointers.                                                               *)
(***************************************************************************)
NULL == 0
\* a pointer value that is no node of the heap
WILD == 0 - 1

(***************************************************************************)
(* Doubles.                                                                *)
(***************************************************************************)
Num(n) == [tag |-> "num", n |-> n, args |-> <<>>]
NAN == [tag |-> "nan", n |-> 0, args |-> <<>>]
Sym(f, as) == [tag |-> f, n |-> 0, args |-> as]
Exact(f, as, n) == IF n <= MaxExact /\ 0 - n <= MaxExact THEN Num(n) ELSE Sym(f, as)

(***************************************************************************)
(* Characters.                                                             *)
(***************************************************************************)
NUL == "NUL"
Digits == <<"0", "1", "2", "3", "4", "5", "6", "7", "8", "9">>
Letters == <<"a", "b", "c", "d", "e", "f", "g", "h", "i", "j", "k", "l", "m",
             "n", "o", "p", "q", "r", "s", "t", "u", "v", "w", "x", "y", "z">>
IndexIn(seq, c) == CHOOSE i \in 1..Len(seq) : seq[i] = c
DigitSet == {Digits[i] : i \in 1..Len(Digits)}
LetterSet == {Letters[i] : i \in 1..Len(Letters)}
isdigit(c) == c \in DigitSet
isalpha(c) == c \in LetterSet
DigitVal(c) == IndexIn(Digits, c) - 1
\* the character's code, as strncmp compares it
Ord(c) ==
    IF c = NUL THEN 0
    ELSE IF isdigit(c) THEN 48 + DigitVal(c)
    ELSE IF isalpha(c) THEN 96 + IndexIn(Letters, c)
    ELSE IF c = "_" THEN 95
    ELSE 33

\* the character at a 0-based offset of a NUL-terminated text
At(text, i) == IF i < Len(text) THEN text[i + 1] ELSE NUL

\* strncmp(text + off, name, len) from its k-th character on: the
\* difference of the first two characters that differ, 0 if none does
RECURSIVE strncmp(_, _, _, _, _)
strncmp_at(text, off, name, len, k, a, b) ==
    IF a # b THEN a - b
    ELSE IF a = 0 THEN 0
    ELSE strncmp(text, off, name, len, k + 1)

strncmp(text, off, name, len, k) ==
    IF k >= len THEN 0
    ELSE strncmp_at(text, off, name, len, k, Ord(At(text, off + k)), Ord(At(name, k)))

(***************************************************************************)
(* The builtin table and the two lookups.                                  *)
(***************************************************************************)
Entry(name, address, type) ==
    [name |-> name, address |-> address, type |-> type, context |-> "none"]
F0P == TE_FUNCTION0 + TE_FLAG_PURE
F1P == TE_FUNCTION0 + 1 + TE_FLAG_PURE
F2P == TE_FUNCTION0 + 2 + TE_FLAG_PURE

\* must be in alphabetical order
functions == <<
    Entry(<<"a", "b", "s">>, "fabs", F1P),
    Entry(<<"a", "c", "o", "s">>, "acos", F1P),
    Entry(<<"a", "s", "i", "n">>, "asin", F1P),
    Entry(<<"a", "t", "a", "n">>, "atan", F1P),
    Entry(<<"a", "t", "a", "n", "2">>, "atan2", F2P),
    Entry(<<"c", "e", "i", "l">>, "ceil", F1P),
    Entry(<<"c", "o", "s">>, "cos", F1P),
    Entry(<<"c", "o", "s", "h">>, "cosh", F1P),
    Entry(<<"e">>, "e", F0P),
    Entry(<<"e", "x", "p">>, "exp", F1P),
    Entry(<<"f", "a", "c">>, "fac", F1P),
    Entry(<<"f", "l", "o", "o", "r">>, "floor", F1P),
    Entry(<<"l", "n">>, "log", F1P),
    Entry(<<"l", "o", "g">>, "log10", F1P),
    Entry(<<"l", "o", "g", "1", "0">>, "log10", F1P),
    Entry(<<"n", "c", "r">>, "ncr", F2P),
    Entry(<<"n", "p", "r">>, "npr", F2P),
    Entry(<<"p", "i">>, "pi", F0P),
    Entry(<<"p", "o", "w">>, "pow", F2P),
    Entry(<<"s", "i", "n">>, "sin", F1P),
    Entry(<<"s", "i", "n", "h">>, "sinh", F1P),
    Entry(<<"s", "q", "r", "t">>, "sqrt", F1P),
    Entry(<<"t", "a", "n">>, "tan", F1P),
    Entry(<<"t", "a", "n", "h">>, "tanh", F1P) >>

\* no entry
NoVar == Entry(<<>>, "none", 0 - 1)

\* binary search over functions; imin and imax are 0-based as in the source
RECURSIVE find_builtin_loop(_, _, _, _, _)

\* c after "if (!c) c = '\0' - functions[i].name[len]"
find_builtin_c(c, name, len) == IF c = 0 THEN 0 - Ord(At(name, len)) ELSE c

find_builtin_step(text, off, len, imin, imax, i, c) ==
    IF c = 0 THEN functions[i + 1]
    ELSE IF c > 0 THEN find_builtin_loop(text, off, len, i + 1, imax)
    ELSE find_builtin_loop(text, off, len, imin, i - 1)

find_builtin_at(text, off, len, imin, imax, i) ==
    find_builtin_step(text, off, len, imin, imax, i,
        find_builtin_c(strncmp(text, off, functions[i + 1].name, len, 0),
                       functions[i + 1].name, len))

find_builtin_loop(text, off, len, imin, imax) ==
    IF imax < imin THEN NoVar
    ELSE find_builtin_at(text, off, len, imin, imax, imin + ((imax - imin) \div 2))

find_builtin(text, off, len) ==
    find_builtin_loop(text, off, len, 0, (Len(functions) + 1) - 2)

\* linear scan of the caller's table, the first match wins
RECURSIVE find_lookup_loop(_, _, _, _, _)
find_lookup_loop(lookup, k, text, off, len) ==
    IF k > Len(lookup) THEN NoVar
    ELSE IF strncmp(text, off, lookup[k].name, len, 0) = 0
            /\ At(lookup[k].name, len) = NUL
         THEN lookup[k]
         ELSE find_lookup_loop(lookup, k + 1, text, off, len)

\* find_lookup scanning the table from its end: the last match wins
find_lookup_last(s, off, len) ==
    find_lookup_loop([k \in 1..s.lookup_len |-> s.lookup[s.lookup_len + 1 - k]],
                     1, s.start, off, len)

find_lookup(s, off, len) ==
    find_lookup_loop(SubSeq(s.lookup, 1, s.lookup_len), 1, s.start, off, len)

(***************************************************************************)
(* strtod on the decimal literals of the source alphabet: digits, an       *)
(* optional point and digits, at least one digit in all.  With no digit    *)
(* nothing is converted: the value is 0 and the end is the start.          *)
(***************************************************************************)
RECURSIVE DigitsEnd(_, _)
DigitsEnd(text, i) == IF isdigit(At(text, i)) THEN DigitsEnd(text, i + 1) ELSE i

RECURSIVE DigitsVal(_, _, _, _)
DigitsVal(text, i, j, acc) ==
    IF i >= j THEN acc
    ELSE IF acc > MaxExact THEN acc
    ELSE DigitsVal(text, i + 1, j, acc * 10 + DigitVal(At(text, i)))

\* nDigits digits in all, iv before the point, fv in the nFrac after it
strtod_value(off, nDigits, nFrac, iv, fv, fe) ==
    IF nDigits = 0 THEN [value |-> Num(0), end |-> off]
    ELSE [value |-> IF fv = 0 THEN Exact("dec", <<Num(iv)>>, iv)
                    ELSE Sym("dec", <<Num(iv), Num(fv), Num(nFrac)>>),
          end |-> fe]

\* ie ends the integer digits, fe the literal (fe > ie: there is a point)
strtod_frac(text, off, ie, fe) ==
    strtod_value(off,
                 (ie - off) + (IF fe > ie THEN fe - (ie + 1) ELSE 0),
                 IF fe > ie THEN fe - (ie + 1) ELSE 0,
                 DigitsVal(text, off, ie, 0),
                 IF fe > ie THEN DigitsVal(text, ie + 1, fe, 0) ELSE 0,
                 fe)

strtod_int(text, off, ie) ==
    strtod_frac(text, off, ie,
                IF At(text, ie) = "." THEN DigitsEnd(text, ie + 1) ELSE ie)

strtod(text, off) == strtod_int(text, off, DigitsEnd(text, off))

(***************************************************************************)
(* The tokenizer.  The parse state s carries the fields of struct state    *)
(* (start, next as an offset from start, type, value, bound, function,     *)
(* context, lookup), the heap, and counters of the calls made.             *)
(***************************************************************************)
RECURSIVE IdentEnd(_, _)
IdentEnd(text, i) ==
    IF isalpha(At(text, i)) \/ isdigit(At(text, i)) \/ At(text, i) = "_"
    THEN IdentEnd(text, i + 1) ELSE i

Infix(s, f) == [s EXCEPT !.type = TOK_INFIX, !.function = f]

\* the branch of a number: s->value = strtod(s->next, (char**)&s->next)
next_token_number(s, r) ==
    [s EXCEPT !.value = r.value, !.next = r.end, !.type = TOK_NUMBER]

\* the switch on the type of the entry found
next_token_found(s1, var) ==
    IF var = NoVar THEN [s1 EXCEPT !.type = TOK_ERROR]
    ELSE IF TYPE_MASK(var.type) = TE_VARIABLE
    THEN [s1 EXCEPT !.type = TOK_VARIABLE, !.bound = var.address]
    ELSE IF IS_CLOSURE(var.type)
    THEN [s1 EXCEPT !.context = var.context, !.type = var.type,
                    !.function = var.address]
    ELSE IF IS_FUNCTION(var.type)
    THEN [s1 EXCEPT !.type = var.type, !.function = var.address]
    ELSE s1

\* var = find_lookup(...); if (!var) var = find_builtin(...)
next_token_lookup(s, start, len, var) ==
    next_token_found([s EXCEPT !.next = start + len],
                     IF var = NoVar THEN find_builtin(s.start, start, len) ELSE var)

\* the branch of an identifier that runs from start to end
next_token_ident(s, start, end) ==
    next_token_lookup(s, start, end - start, find_lookup(s, start, end - start))

\* switch (s->next++[0])
next_token_char(s1, c) ==
    CASE c = "+" -> Infix(s1, "add")
      [] c = "-" -> Infix(s1, "sub")
      [] c = "*" -> Infix(s1, "mul")
      [] c = "/" -> Infix(s1, "divide")
      [] c = "^" -> Infix(s1, "pow")
      [] c = "%" -> Infix(s1, "fmod")
      [] c = "(" -> [s1 EXCEPT !.type = TOK_OPEN]
      [] c = ")" -> [s1 EXCEPT !.type = TOK_CLOSE]
      [] c = "," -> [s1 EXCEPT !.type = TOK_SEP]
      [] c = " " -> s1
      [] OTHER -> [s1 EXCEPT !.type = TOK_ERROR]

next_token_at(s, c) ==
    IF c = NUL THEN [s EXCEPT !.type = TOK_END]
    ELSE IF isdigit(c) \/ c = "." THEN next_token_number(s, strtod(s.start, s.next))
    ELSE IF isalpha(c) THEN next_token_ident(s, s.next, IdentEnd(s.start, s.next))
    ELSE next_token_char([s EXCEPT !.next = s.next + 1], c)

\* one turn of the do-while of next_token; tokStart notes where it began
next_token_turn(s) ==
    next_token_at([s EXCEPT !.tokStart = s.next], At(s.start, s.next))

RECURSIVE next_token_loop(_)
\* while (s->type == TOK_NULL)
next_token_while(s1) == IF s1.type = TOK_NULL THEN next_token_loop(s1) ELSE s1

next_token_loop(s) == next_token_while(next_token_turn(s))

next_token(s) ==
    next_token_loop([s EXCEPT !.type = TOK_NULL, !.ntok = s.ntok + 1,
                              !.afterError = s.afterError \/ s.type = TOK_ERROR])

(***************************************************************************)
(* The heap: new_expr, te_free_parameters, te_free.  A node keeps the      *)
(* fields of te_expr (type, the union value / bound / function, the        *)
(* parameters, and the closure context the source stores after them) and   *)
(* whether it is allocated.  failAt numbers the call of malloc that        *)
(* returns NULL (0: none does).                                            *)
(***************************************************************************)
Node(type, parameters) ==
    [type |-> type, value |-> Num(0), bound |-> "none", function |-> "none",
     parameters |-> parameters, context |-> "none", live |-> TRUE]

\* the parameters argument of new_expr when it is 0
NoParams == <<>>

\* [s, ret]: what a function of the parser returns
R(s, ret) == [s |-> s, ret |-> ret]

\* a copy that stores the first parameter in every slot
new_expr_parameters_first(arity, parameters) ==
    IF arity > 0 /\ parameters # NoParams
    THEN [i \in 1..arity |-> parameters[1]]
    ELSE [i \in 1..arity |-> NULL]

\* memcpy(ret->parameters, parameters, psize) under "if (parameters)", after
\* the memset
new_expr_parameters(arity, parameters) ==
    IF arity > 0 /\ parameters # NoParams
    THEN [i \in 1..arity |-> parameters[i]]
    ELSE [i \in 1..arity |-> NULL]

new_expr(s, type, parameters) ==
    IF s.nalloc + 1 = s.failAt THEN R([s EXCEPT !.nalloc = s.nalloc + 1], NULL)
    ELSE R([s EXCEPT !.nalloc = s.nalloc + 1,
                     !.heap = Append(s.heap,
                                Node(type, new_expr_parameters(ARITY(type), parameters)))],
           Len(s.heap) + 1)

\* how many parameters the switch of te_free_parameters frees
FreedParams(type) ==
    IF (TYPE_MASK(type) > TE_FUNCTION0 /\ TYPE_MASK(type) <= TE_FUNCTION0 + 7)
       \/ (TYPE_MASK(type) > TE_CLOSURE0 /\ TYPE_MASK(type) <= TE_CLOSURE0 + 7)
    THEN TYPE_MASK(type) % 8 ELSE 0

RECURSIVE te_free(_, _), te_free_from(_, _, _)

\* te_free on ptrs[k], ptrs[k-1], ..., ptrs[1]
te_free_from(s, ptrs, k) ==
    IF k < 1 THEN s ELSE te_free_from(te_free(s, ptrs[k]), ptrs, k - 1)

te_free_parameters(s, n) ==
    IF n = NULL THEN s
    ELSE te_free_from(s, s.heap[n].parameters, FreedParams(s.heap[n].type))

\* free(n) after te_free_parameters(n)
te_free_node(s1, n) ==
    IF ~s1.heap[n].live THEN [s1 EXCEPT !.doubleFree = TRUE]
    ELSE [s1 EXCEPT !.heap[n].live = FALSE]

\* free() of a pointer that is no node, or of a node already freed, is
\* undefined: it is recorded and the heap is left as it is
te_free(s, n) ==
    IF n = NULL THEN s
    ELSE IF n < 1 \/ n > Len(s.heap) THEN [s EXCEPT !.invalidFree = TRUE]
    ELSE IF ~s.heap[n].live THEN [s EXCEPT !.doubleFree = TRUE]
    ELSE te_free_node(te_free_parameters(s, n), n)

(***************************************************************************)
(* The parser.  Every function takes the parse state and returns R(s, ret) *)
(* with ret the node built, or NULL.  A function that calls another is     *)
(* split at the call: the part after it takes the call's result.           *)
(***************************************************************************)
RECURSIVE list(_), list_loop(_), expr(_), expr_loop(_), term(_),
          term_loop(_), factor(_), factor_loop(_), power(_), base(_),
          base_args(_, _, _, _)

SetValue(s, n, v) == [s EXCEPT !.heap[n].value = v]
SetBound(s, n, b) == [s EXCEPT !.heap[n].bound = b]
SetFunction(s, n, f) == [s EXCEPT !.heap[n].function = f]

\* ret->function = f->function; if (IS_CLOSURE(f->type)) the context too;
\* f is the state at the function's token
SetCall(s, n, f) ==
    [s EXCEPT !.heap[n].function = f.function,
              !.heap[n].context = IF IS_CLOSURE(f.type) THEN f.context ELSE @]

\* const te_expr *params[7], not initialized: every slot holds s.garbage
\* until it is assigned
ParamsOfBase(s) == [k \in 1..7 |-> s.garbage]

\* case TOK_NUMBER
\* the token after a number read once more when the cursor stood still
base_number_again(s1, ret, s2) ==
    IF s2.type = TOK_NUMBER /\ s2.next = s1.next THEN R(next_token(s2), ret)
    ELSE R(s2, ret)

base_number_rereading(s, a) ==
    IF a.ret = NULL THEN a
    ELSE base_number_again(a.s, a.ret, next_token(SetValue(a.s, a.ret, s.value)))

base_number_built(s, a) ==
    IF a.ret = NULL THEN a
    ELSE R(next_token(SetValue(a.s, a.ret, s.value)), a.ret)

base_number(s) == base_number_built(s, new_expr(s, TE_CONSTANT, NoParams))

\* case TOK_VARIABLE
base_variable_built(s, a) ==
    IF a.ret = NULL THEN a
    ELSE R(next_token(SetBound(a.s, a.ret, s.bound)), a.ret)

base_variable(s) == base_variable_built(s, new_expr(s, TE_VARIABLE, NoParams))

\* case TE_FUNCTION0, TE_CLOSURE0
base_function0_close(s4, ret) ==
    IF s4.type # TOK_CLOSE THEN R([s4 EXCEPT !.type = TOK_ERROR], ret)
    ELSE R(next_token(s4), ret)

base_function0_open(s3, ret) ==
    IF s3.type # TOK_OPEN THEN R(s3, ret)
    ELSE base_function0_close(next_token(s3), ret)

base_function0_built(s, a) ==
    IF a.ret = NULL THEN a
    ELSE base_function0_open(next_token(SetCall(a.s, a.ret, s)), a.ret)

base_function0(s) == base_function0_built(s, new_expr(s, s.type, NoParams))

\* case TE_FUNCTION1, TE_CLOSURE1
base_function1_built(f, params, a) ==
    IF a.ret = NULL THEN R(te_free(a.s, params[1]), NULL)
    ELSE R(SetCall(a.s, a.ret, f), a.ret)

base_function1_new(f, p, params) ==
    base_function1_built(f, params, new_expr(p.s, f.type, params))

base_function1_power(f, p) ==
    IF p.ret = NULL THEN p
    ELSE base_function1_new(f, p, [ParamsOfBase(f) EXCEPT ![1] = p.ret])

base_function1(s) == base_function1_power(s, power(next_token(s)))

\* the for loop over the arguments of a call of arity 2..7; i is the
\* source's 0-based index, params[i + 1] its slot params[i]
\* base_args_expr without line 436: the arguments parsed before the one that
\* failed are not freed
base_args_expr_leaky(arity, i, params, e) ==
    IF e.ret = NULL
    THEN [s |-> e.s, i |-> i, params |-> params, null |-> TRUE]
    ELSE IF e.s.type # TOK_SEP
    THEN [s |-> e.s, i |-> i, params |-> [params EXCEPT ![i + 1] = e.ret],
          null |-> FALSE]
    ELSE base_args(e.s, arity, i + 1, [params EXCEPT ![i + 1] = e.ret])

base_args_expr(arity, i, params, e) ==
    IF e.ret = NULL
    THEN [s |-> te_free_from(e.s, params, i), i |-> i, params |-> params,
          null |-> TRUE]
    ELSE IF e.s.type # TOK_SEP
    THEN [s |-> e.s, i |-> i, params |-> [params EXCEPT ![i + 1] = e.ret],
          null |-> FALSE]
    ELSE base_args(e.s, arity, i + 1, [params EXCEPT ![i + 1] = e.ret])

base_args(s, arity, i, params) ==
    IF i >= arity THEN [s |-> s, i |-> i, params |-> params, null |-> FALSE]
    ELSE base_args_expr(arity, i, params, expr(next_token(s)))

\* freeing params[ARITY(f_type) - 1 .. 0] after an argument list that does
\* not match: the slots from the first one never assigned are read
\* uninitialized
free_mismatch(s, f_type, i, params) ==
    [te_free_from(s, params, ARITY(f_type))
        EXCEPT !.type = TOK_ERROR,
               !.uninitRead = s.uninitRead \/ i + 1 < ARITY(f_type)]

\* case TE_FUNCTION2..7, TE_CLOSURE2..7
base_functionN_built(f, l, a) ==
    IF a.ret = NULL THEN R(te_free_from(a.s, l.params, ARITY(f.type)), NULL)
    ELSE R(SetCall(a.s, a.ret, f), a.ret)

base_functionN_args(f, l) ==
    IF l.null THEN R(l.s, NULL)
    ELSE IF l.s.type # TOK_CLOSE \/ l.i # ARITY(f.type) - 1
    THEN R(free_mismatch(l.s, f.type, l.i, l.params), NULL)
    ELSE base_functionN_built(f, l, new_expr(next_token(l.s), f.type, l.params))

base_functionN_open(f, s1) ==
    IF s1.type # TOK_OPEN THEN R([s1 EXCEPT !.type = TOK_ERROR], NULL)
    ELSE base_functionN_args(f, base_args(s1, ARITY(f.type), 0, ParamsOfBase(f)))

base_functionN(s) == base_functionN_open(s, next_token(s))

\* case TOK_OPEN
\* case TOK_OPEN reading one more token before it reports a missing
\* parenthesis
base_open_list_resuming(l) ==
    IF l.ret = NULL THEN l
    ELSE IF l.s.type # TOK_CLOSE
         THEN R([next_token(l.s) EXCEPT !.type = TOK_ERROR], l.ret)
    ELSE R(next_token(l.s), l.ret)

base_open_list(l) ==
    IF l.ret = NULL THEN l
    ELSE IF l.s.type # TOK_CLOSE THEN R([l.s EXCEPT !.type = TOK_ERROR], l.ret)
    ELSE R(next_token(l.s), l.ret)

base_open(s) == base_open_list(list(next_token(s)))

\* default: the NaN node; new_expr(0, 0) gives it type 0
base_default_built(a) ==
    IF a.ret = NULL THEN a
    ELSE R(SetValue([a.s EXCEPT !.type = TOK_ERROR, !.fallback = TRUE],
                    a.ret, NAN), a.ret)

base_default(s) == base_default_built(new_expr(s, 0, NoParams))

\* base_switch with the 1-ary functions sent to the case of arity 2..7, which
\* requires the parenthesis
base_switch_strict(s, m) ==
    CASE m = TOK_NUMBER -> base_number(s)
      [] m = TOK_VARIABLE -> base_variable(s)
      [] m = TE_FUNCTION0 \/ m = TE_CLOSURE0 -> base_function0(s)
      [] (m >= TE_FUNCTION0 + 1 /\ m <= TE_FUNCTION0 + 7)
         \/ (m >= TE_CLOSURE0 + 1 /\ m <= TE_CLOSURE0 + 7) -> base_functionN(s)
      [] m = TOK_OPEN -> base_open(s)
      [] OTHER -> base_default(s)

\* switch (TYPE_MASK(s->type))
base_switch(s, m) ==
    CASE m = TOK_NUMBER -> base_number(s)
      [] m = TOK_VARIABLE -> base_variable(s)
      [] m = TE_FUNCTION0 \/ m = TE_CLOSURE0 -> base_function0(s)
      [] m = TE_FUNCTION0 + 1 \/ m = TE_CLOSURE0 + 1 -> base_function1(s)
      [] (m >= TE_FUNCTION0 + 2 /\ m <= TE_FUNCTION0 + 7)
         \/ (m >= TE_CLOSURE0 + 2 /\ m <= TE_CLOSURE0 + 7) -> base_functionN(s)
      [] m = TOK_OPEN -> base_open(s)
      [] OTHER -> base_default(s)

base(s) == base_switch(s, TYPE_MASK(s.type))

\* the while loop of power over the unary signs: [s, sign]
RECURSIVE power_signs(_, _)
power_signs(s, sign) ==
    IF s.type = TOK_INFIX /\ (s.function = "add" \/ s.function = "sub")
    THEN power_signs(next_token(s), IF s.function = "sub" THEN 0 - sign ELSE sign)
    ELSE [s |-> s, sign |-> sign]

power_negate(b, a) ==
    IF a.ret = NULL THEN R(te_free(a.s, b.ret), NULL)
    ELSE R(SetFunction(a.s, a.ret, "negate"), a.ret)

power_base(sign, b) ==
    IF sign = 1 THEN b
    ELSE IF b.ret = NULL THEN b
    ELSE power_negate(b, new_expr(b.s, TE_FUNCTION0 + 1 + TE_FLAG_PURE, <<b.ret>>))

power_signed(w) == power_base(w.sign, base(w.s))

power(s) == power_signed(power_signs(s, 1))

\* the body shared by the while loops of factor, term, expr and list: the
\* operand p was parsed after the operator t; prev is the chain so far
binary_built(p, prev, t, a) ==
    IF a.ret = NULL THEN R(te_free(te_free(a.s, p.ret), prev), NULL)
    ELSE R(SetFunction(a.s, a.ret, t), a.ret)

\* binary with the two children in the other order
binary_swapped(p, prev, t) ==
    IF p.ret = NULL THEN R(te_free(p.s, prev), NULL)
    ELSE binary_built(p, prev, t,
            new_expr(p.s, TE_FUNCTION0 + 2 + TE_FLAG_PURE, <<p.ret, prev>>))

binary(p, prev, t) ==
    IF p.ret = NULL THEN R(te_free(p.s, prev), NULL)
    ELSE binary_built(p, prev, t,
            new_expr(p.s, TE_FUNCTION0 + 2 + TE_FLAG_PURE, <<prev, p.ret>>))

\* TE_POW_FROM_RIGHT is not defined: the #else factor.  r is the chain so
\* far and the state after it
factor_loop(r) ==
    IF r.ret = NULL THEN r
    ELSE IF r.s.type = TOK_INFIX /\ r.s.function = "pow"
    THEN factor_loop(binary(power(next_token(r.s)), r.ret, r.s.function))
    ELSE r

factor(s) == factor_loop(power(s))

term_loop(r) ==
    IF r.ret = NULL THEN r
    ELSE IF r.s.type = TOK_INFIX
            /\ (r.s.function = "mul" \/ r.s.function = "divide"
                \/ r.s.function = "fmod")
    THEN term_loop(binary(factor(next_token(r.s)), r.ret, r.s.function))
    ELSE r

term(s) == term_loop(factor(s))

expr_loop(r) ==
    IF r.ret = NULL THEN r
    ELSE IF r.s.type = TOK_INFIX /\ (r.s.function = "add" \/ r.s.function = "sub")
    THEN expr_loop(binary(term(next_token(r.s)), r.ret, r.s.function))
    ELSE r

expr(s) == expr_loop(term(s))

\* list_loop that takes no comma
list_single(r) == r

list_loop(r) ==
    IF r.ret = NULL THEN r
    ELSE IF r.s.type = TOK_SEP
    THEN list_loop(binary(expr(next_token(r.s)), r.ret, "comma"))
    ELSE r

list(s) == list_loop(expr(s))

(***************************************************************************)
(* The callables.  A result is exact when the operands are exact integers  *)
(* and the result is one; any other application is kept as the symbolic    *)
(* term of the function and its arguments.                                 *)
(***************************************************************************)
Abs(n) == IF n < 0 THEN 0 - n ELSE n

RECURSIVE IPow(_, _, _)
\* acc * a^b for b >= 0, given up once it is beyond MaxExact
IPow(a, b, acc) ==
    IF b = 0 \/ Abs(acc) > MaxExact THEN acc
    ELSE IF a = 0 THEN 0
    ELSE IF a = 1 THEN acc
    ELSE IF a = 0 - 1 THEN (IF b % 2 = 0 THEN acc ELSE 0 - acc)
    ELSE IPow(a, b - 1, acc * a)

Apply(f, as) ==
    IF f = "comma" THEN as[2]
    ELSE IF \E i \in 1..Len(as) : as[i].tag # "num" THEN Sym(f, as)
    ELSE CASE f = "add" -> Exact(f, as, as[1].n + as[2].n)
           [] f = "sub" -> Exact(f, as, as[1].n - as[2].n)
           [] f = "mul" -> Exact(f, as, as[1].n * as[2].n)
           [] f = "negate" -> Num(0 - as[1].n)
           [] f = "fabs" -> Num(Abs(as[1].n))
           [] f = "divide" ->
                IF as[2].n # 0 /\ Abs(as[1].n) % Abs(as[2].n) = 0
                THEN Num((IF (as[1].n < 0) = (as[2].n < 0) THEN 1 ELSE 0 - 1)
                         * (Abs(as[1].n) \div Abs(as[2].n)))
                ELSE Sym(f, as)
           [] f = "fmod" ->
                IF as[2].n # 0
                THEN Num((IF as[1].n < 0 THEN 0 - 1 ELSE 1)
                         * (Abs(as[1].n) % Abs(as[2].n)))
                ELSE Sym(f, as)
           [] f = "pow" ->
                IF as[2].n >= 0
                THEN Exact(f, as, IPow(as[1].n, as[2].n, 1))
                ELSE Sym(f, as)
           [] OTHER -> Sym(f, as)

(***************************************************************************)
(* te_eval.  vmem is the caller's storage of the variables, by address.    *)
(***************************************************************************)
RECURSIVE te_eval(_, _, _)

\* switch (TYPE_MASK(n->type)); args are the M(0..) of the node nd
te_eval_switch(nd, vmem, m, args) ==
    IF m = TE_CONSTANT THEN nd.value
    ELSE IF m = TE_VARIABLE THEN vmem[nd.bound]
    ELSE IF m >= TE_FUNCTION0 /\ m <= TE_FUNCTION0 + 7
    THEN Apply(nd.function, args)
    ELSE IF m >= TE_CLOSURE0 /\ m <= TE_CLOSURE0 + 7
    THEN Apply(nd.function, <<Sym(nd.context, <<>>)>> \o args)
    ELSE NAN

te_eval(heap, vmem, n) ==
    IF n = NULL THEN NAN
    ELSE te_eval_switch(heap[n], vmem, TYPE_MASK(heap[n].type),
            [i \in 1..ARITY(heap[n].type) |->
                te_eval(heap, vmem, heap[n].parameters[i])])

(***************************************************************************)
(* optimize                                                                *)
(***************************************************************************)
RECURSIVE optimize(_, _, _), optimize_params(_, _, _, _, _)

\* optimize_param that leaves known as it is whatever the parameter became
optimize_param_any(s1, vmem, n, i, known) ==
    optimize_params(s1, vmem, n, i + 1, known)

\* after optimize of parameter i: known stays 1 only if it is a constant
optimize_param(s1, vmem, n, i, known) ==
    optimize_params(s1, vmem, n, i + 1,
        known /\ s1.heap[s1.heap[n].parameters[i + 1]].type = TE_CONSTANT)

\* the for loop of optimize over the parameters: [s, known]
optimize_params(s, vmem, n, i, known) ==
    IF i >= ARITY(s.heap[n].type) THEN [s |-> s, known |-> known]
    ELSE optimize_param(optimize(s, vmem, s.heap[n].parameters[i + 1]),
                        vmem, n, i, known)

\* te_free_parameters(n); n->type = TE_CONSTANT; n->value = value
optimize_fold(s, n, value) ==
    [te_free_parameters(s, n)
        EXCEPT !.heap[n].type = TE_CONSTANT, !.heap[n].value = value]

\* optimize_known that folds nothing
optimize_unfolded(l, vmem, n) == l.s

\* if (known) { const double value = te_eval(n); ... }
optimize_known(l, vmem, n) ==
    IF l.known THEN optimize_fold(l.s, n, te_eval(l.s.heap, vmem, n)) ELSE l.s

\* optimize that visits the parameters of a node not flagged pure
optimize_descending(s, vmem, n) ==
    IF s.heap[n].type = TE_CONSTANT THEN s
    ELSE IF s.heap[n].type = TE_VARIABLE THEN s
    ELSE IF ~IS_PURE(s.heap[n].type) THEN optimize_params(s, vmem, n, 0, TRUE).s
    ELSE optimize_known(optimize_params(s, vmem, n, 0, TRUE), vmem, n)

optimize(s, vmem, n) ==
    IF s.heap[n].type = TE_CONSTANT THEN s
    ELSE IF s.heap[n].type = TE_VARIABLE THEN s
    ELSE IF ~IS_PURE(s.heap[n].type) THEN s
    ELSE optimize_known(optimize_params(s, vmem, n, 0, TRUE), vmem, n)

(***************************************************************************)
(* te_compile and te_interp.  failAt and garbage are the two things the    *)
(* caller does not control: which malloc fails, and what an uninitialized  *)
(* pointer slot holds.                                                     *)
(***************************************************************************)
\* the state after s.start = s.next = expression and the lookup fields
StartState(expression, variables, var_count, failAt, garbage) ==
    [start |-> expression, next |-> 0, type |-> TOK_NULL, value |-> Num(0),
     bound |-> "none", function |-> "none", context |-> "none",
     lookup |-> variables, lookup_len |-> var_count,
     heap |-> <<>>, nalloc |-> 0, failAt |-> failAt, garbage |-> garbage,
     invalidFree |-> FALSE, doubleFree |-> FALSE, uninitRead |-> FALSE,
     ntok |-> 0, tokStart |-> 0, afterError |-> FALSE, fallback |-> FALSE,
     built |-> <<>>]

\* ErrorPosition as the 1-based offset at which the last token began
ErrorPositionAtStart(s) == s.tokStart + 1

\* *error after a tree that did not end at TOK_END
ErrorPosition(s) == IF s.next = 0 THEN 1 ELSE s.next

\* te_compile_root that keeps the tree parsed before the unexpected token
te_compile_root_partial(l, vmem) ==
    IF l.ret = NULL
    THEN [root |-> NULL, error |-> 0 - 1, s |-> l.s, parsed |-> NAN]
    ELSE IF l.s.type # TOK_END
    THEN [root |-> l.ret, error |-> IF l.s.next = 0 THEN 1 ELSE l.s.next,
          s |-> l.s, parsed |-> NAN]
    ELSE [root |-> l.ret, error |-> 0, s |-> optimize(l.s, vmem, l.ret),
          parsed |-> te_eval(l.s.heap, vmem, l.ret)]

\* after root = list(&s).  [root, error, s, parsed]: the tree returned,
\* *error, the final state, and the value of the tree before optimize (NAN
\* when there is none); s.built notes the heap before optimize
te_compile_root(l, vmem) ==
    IF l.ret = NULL
    THEN [root |-> NULL, error |-> 0 - 1, s |-> l.s, parsed |-> NAN]
    ELSE IF l.s.type # TOK_END
    THEN [root |-> NULL, error |-> ErrorPosition(l.s), s |-> te_free(l.s, l.ret),
          parsed |-> NAN]
    ELSE [root |-> l.ret, error |-> 0,
          s |-> [optimize(l.s, vmem, l.ret) EXCEPT !.built = l.s.heap],
          parsed |-> te_eval(l.s.heap, vmem, l.ret)]

te_compile(expression, variables, var_count, vmem, failAt, garbage) ==
    te_compile_root(
        list(next_token(StartState(expression, variables, var_count, failAt, garbage))),
        vmem)

\* after n = te_compile(expression, 0, 0, error): [ret, error, s]
te_interp_compiled(c, vmem) ==
    IF c.root = NULL THEN [ret |-> NAN, error |-> c.error, s |-> c.s]
    ELSE [ret |-> te_eval(c.s.heap, vmem, c.root), error |-> c.error,
          s |-> te_free(c.s, c.root)]

te_interp(expression, vmem, failAt, garbage) ==
    te_interp_compiled(te_compile(expression, <<>>, 0, vmem, failAt, garbage), vmem)

(***************************************************************************)
(* The inputs.  An expression is a concatenation of lexemes; the caller's  *)
(* tables hold a variable x, two variables named pi and an impure          *)
(* function f of one argument.                                             *)
(***************************************************************************)
Lsin == <<"s", "i", "n">>
Lpow == <<"p", "o", "w">>
Lpi == <<"p", "i">>
Latan2 == <<"a", "t", "a", "n", "2">>

Lexemes ==
    { <<"2">>, <<"3">>, <<"+">>, <<"-">>, <<"*">>, <<"^">>, <<"(">>, <<")">>,
      <<",">>, <<" ">>, Lsin, Lpow, Lpi, <<"x">> }

RECURSIVE Texts(_)
\* the concatenations of at most k lexemes
Texts(k) ==
    IF k = 0 THEN {<<>>}
    ELSE LET T == Texts(k - 1) IN T \cup {p \o l : p \in T, l \in Lexemes}

\* operand (operator operand)*, with at most k operators
Operands == {<<"2">>, <<"3">>, <<"4">>}
Operators == {<<"+">>, <<"-">>, <<"*">>, <<"^">>}
MaxOps == 2
RECURSIVE Chains(_)
Chains(k) ==
    IF k = 0 THEN Operands
    ELSE LET C == Chains(k - 1)
         IN C \cup {c \o o \o a : c \in C, o \in Operators, a \in Operands}

\* name ( arguments ), with at most MaxArgs arguments, some of them empty
\* or calls themselves
Call(f, as) == f \o <<"(">> \o as \o <<")">>
Arguments ==
    {<<"2">>, <<"3">>, <<"x">>, <<>>, Call(Lpow, <<"2", ",", "3">>), Call(Lpow, <<"2">>)}
RECURSIVE ArgLists(_, _)
\* the lists of 1..n arguments drawn from A
ArgLists(A, n) ==
    IF n <= 1 THEN A
    ELSE LET L == ArgLists(A, n - 1)
         IN L \cup {l \o <<",">> \o a : l \in L, a \in A}
Calls == {Call(f, as) : f \in {Lsin, Lpow, Lpi, Latan2}, as \in ArgLists(Arguments, MaxArgs)}

\* pow(2,pow(2,...leaf)) to a depth of at most d
MaxDepth == 3
Leaves == {<<"2">>, <<>>, <<"2", ",", "3">>, <<"x", "+">>, <<"2", ")">>}
RECURSIVE Nested(_)
Nested(d) ==
    IF d = 0 THEN Leaves
    ELSE LET N == Nested(d - 1)
         IN N \cup {Call(Lpow, <<"2", ",">> \o n) : n \in N}

\* two calls joined by an operator
Pairs ==
    LET P == {Call(Lpow, <<"2", ",", "3">>), Call(Lpow, <<"2">>),
              Call(Lpow, <<"2", ",", "3", ",", "4">>),
              Call(Lsin, <<"2">>), <<"2">>}
    IN {a \o o \o b : a \in P, o \in Operators, b \in P}

\* the expressions the documentation uses
Examples ==
    { <<"1", "+", "2", "*", "3">>,
      <<"2", " ", "+", " ", "3", " ", "*", " ">> \o Call(Lsin, Lpi \o <<"/", "2">>),
      <<"2", "+">>, Call(Lsin, <<"1", ",", "2">>), Call(Latan2, <<"1">>),
      Call(Lpow, <<"1", ",", "2", ",", "3">>), Lsin \o <<" ", "1">>,
      Lpow \o <<" ", "2">>, <<"2", " ", "3", "4">>, <<".">>, <<"2", ".", "5">>,
      <<"1", "*", "2", "(", "1", "+", "4">>,
      <<".", ".">>, <<"2", "+", ".">>, <<"(", ".">>, <<"-", ".">>, <<".", "2">>,
      <<".", " ", "2">>, Lsin \o <<"(", ".">>, Lsin \o <<".">>,
      Lpow \o <<"(", "2", ",", ".">>, Lpow \o <<"(", ".", ",", ".", ")">>,
      Lpow \o <<"(", "2", ",">>, Lpow \o <<"(", "2", ",", "(", "3">>,
      <<"(", "(", "2", "+", "3", ")">>, <<"(", "2", ".">> }

Addresses == {"ax", "ay"}
Values == {Num(2), Num(5)}

VarX == Entry(<<"x">>, "ax", TE_VARIABLE)
VarPi == Entry(Lpi, "ax", TE_VARIABLE)
VarPi2 == Entry(Lpi, "ay", TE_VARIABLE)
FunSin == Entry(Lsin, "user_sin", TE_FUNCTION0 + 1)

\* calls of the 2-ary pow and atan2 with one argument or with three
Digit1 == Operands \cup {<<"1">>}
Arity2Wrong ==
    {Call(f, as) :
        f \in {Lpow, Latan2},
        as \in Digit1 \cup {a \o <<",">> \o b \o <<",">> \o c :
                                a \in Digit1, b \in Digit1, c \in Digit1}}

\* calls of the 1-ary sin with two arguments
SinTwo == {Call(Lsin, a \o <<",">> \o b) : a \in Digit1, b \in Digit1}

\* a function name followed by a token that is not "("
Arity1Bare ==
    {pre \o Lsin \o post : pre \in {<<>>, <<"2", "+">>},
                           post \in {<<" ">> \o a : a \in Digit1} \cup {<<"-", "2">>}}
Arity2Bare ==
    {pre \o Lpow \o post : pre \in {<<>>, <<"2", "+">>, <<"(">>},
                           post \in {<<>>, <<" ", "2">>, <<"+", "2">>, <<")">>, <<",", "2">>,
                                     <<" ", "2", ",", "3">>}}

Expressions ==
    Texts(MaxLex) \cup Chains(MaxOps) \cup Calls \cup Nested(MaxDepth) \cup Pairs
    \cup Examples \cup Arity2Wrong \cup SinTwo \cup Arity1Bare \cup Arity2Bare

\* the expressions and tables of the calls that test shadowing
ShadowExpressions ==
    {Lpi, <<"x">>, Lpi \o <<"*", "2">>, Call(Lsin, Lpi), Call(Lsin, <<"x">>),
     Call(Lsin, <<"2", "*", "3">>), <<"1", "+">> \o Call(Lsin, <<"2", "*", "3">>),
     <<"2", "*", "3", "+">> \o Call(Lsin, <<"2", "*", "3">>)}
ShadowTables ==
    { <<>>, <<VarPi>>, <<VarPi, VarPi2>>, <<VarPi2, VarPi>>, <<VarX, VarPi2>>,
      <<VarPi2, VarX, VarPi>>, <<VarX, FunSin>> }

\* an uninitialized pointer slot holds NULL, a value that is no node, or a
\* pointer left by an earlier call to one of the first nodes
MaxStale == 2
Garbage == {NULL, WILD} \cup (1..MaxStale)

(***************************************************************************)
(* The caller: te_compile, then te_eval any number of times with stores to *)
(* the variables in between, then te_free; or te_interp in one call.       *)
(***************************************************************************)
VARIABLES phase, expression, variables, vmem, heap, root, error, result, run

vars == <<phase, expression, variables, vmem, heap, root, error, result, run>>

\* what is recorded of a call of te_compile besides its results
Record(s, parsed, failAt, garbage) ==
    [next |-> s.next, type |-> s.type, tokStart |-> s.tokStart,
     nalloc |-> s.nalloc, ntok |-> s.ntok, afterError |-> s.afterError,
     fallback |-> s.fallback, invalidFree |-> s.invalidFree,
     doubleFree |-> s.doubleFree, uninitRead |-> s.uninitRead,
     nomem |-> failAt >= 1 /\ failAt <= s.nalloc,
     garbage |-> IF s.uninitRead THEN garbage ELSE NULL, parsed |-> parsed,
     built |-> s.built]

\* before the call: the caller holds an expression and its table
InitOn(E, V) ==
    /\ phase = "idle"
    /\ expression \in E
    /\ variables \in V
    /\ vmem = [a \in Addresses |-> Num(2)]
    /\ heap = <<>>
    /\ root = NULL
    /\ error = 0
    /\ result = NAN
    /\ run = Record(StartState(<<>>, <<>>, 0, 0, NULL), NAN, 0, NULL)

\* a call whose free() of an invalid pointer ends the process
Aborts(s) == s.invalidFree \/ s.doubleFree

\* the call made with the malloc numbered failAt failing and garbage in
\* the uninitialized slots: it returns c, or its free() ends the process
TeCompileReturns(c, failAt, garbage) ==
    /\ heap' = c.s.heap
    /\ run' = Record(c.s, c.parsed, failAt, garbage)
    /\ \/ /\ root' = c.root
          /\ error' = c.error
          /\ phase' = IF c.root = NULL THEN "failed" ELSE "compiled"
       \/ /\ Aborts(c.s)
          /\ phase' = "aborted"
          /\ UNCHANGED <<root, error>>

\* c0 is the call with no failure: any of its allocations may fail, and
\* the garbage matters only if it reads an uninitialized slot
TeCompileChoose(c0) ==
    \E failAt \in 0..c0.s.nalloc :
       \E garbage \in IF c0.s.uninitRead THEN Garbage ELSE {NULL} :
          TeCompileReturns(
              te_compile(expression, variables, Len(variables), vmem, failAt, garbage),
              failAt, garbage)

TeCompile ==
    /\ phase = "idle"
    /\ TeCompileChoose(te_compile(expression, variables, Len(variables), vmem, 0, NULL))
    /\ UNCHANGED <<expression, variables, vmem, result>>

TeEval ==
    /\ phase = "compiled"
    /\ result' = te_eval(heap, vmem, root)
    /\ UNCHANGED <<phase, expression, variables, vmem, heap, root, error, run>>

\* the caller's own write to a variable the tree is bound to
Store(a, v) ==
    /\ phase = "compiled"
    /\ \E k \in 1..Len(variables) : variables[k].address = a
    /\ vmem' = [vmem EXCEPT ![a] = v]
    /\ UNCHANGED <<phase, expression, variables, heap, root, error, result, run>>

\* s is the state after te_free(root)
TeFreeReturns(s) ==
    /\ heap' = s.heap
    /\ run' = [run EXCEPT !.invalidFree = s.invalidFree,
                          !.doubleFree = s.doubleFree]

TeFree ==
    /\ phase = "compiled"
    /\ TeFreeReturns(te_free([StartState(expression, variables, 0, 0, NULL)
                                 EXCEPT !.heap = heap], root))
    /\ phase' = "freed"
    /\ root' = NULL
    /\ UNCHANGED <<expression, variables, vmem, error, result>>

TeInterpReturns(c, failAt, garbage) ==
    /\ heap' = c.s.heap
    /\ run' = Record(c.s, NAN, failAt, garbage)
    /\ \/ /\ result' = c.ret
          /\ error' = c.error
          /\ phase' = "interp"
       \/ /\ Aborts(c.s)
          /\ phase' = "aborted"
          /\ UNCHANGED <<result, error>>

TeInterpChoose(c0) ==
    \E failAt \in 0..c0.s.nalloc :
       \E garbage \in IF c0.s.uninitRead THEN Garbage ELSE {NULL} :
          TeInterpReturns(te_interp(expression, vmem, failAt, garbage), failAt, garbage)

TeInterp ==
    /\ phase = "idle"
    /\ TeInterpChoose(te_interp(expression, vmem, 0, NULL))
    /\ UNCHANGED <<expression, variables, vmem, root>>

Init ==
    \/ InitOn(Expressions, {<<VarX>>})
    \/ InitOn(ShadowExpressions, ShadowTables)

Next ==
    \/ TeCompile
    \/ TeInterp
    \/ TeEval
    \/ \E a \in Addresses, v \in Values : Store(a, v)
    \/ TeFree

Spec == Init /\ [][Next]_vars

(***************************************************************************)
(* The properties.                                                         *)
(***************************************************************************)
\* te_compile has returned to the caller
Returned == phase \in {"compiled", "failed"}

Max(a, b) == IF a >= b THEN a ELSE b

AllFreed == \A n \in 1..Len(heap) : ~heap[n].live

\* C1, as the specification states it: compiling a call of a 2-ary function
\* with one argument or with three fails with a positive error position,
\* not with the negative sentinel of a failed allocation.
C1_ArityMismatchIsSyntaxError ==
    (Returned /\ expression \in Arity2Wrong /\ ~run.nomem)
        => (root = NULL /\ error > 0)

\* C2, as the specification states it: compiling sin with two arguments
\* between its parentheses fails, no tree and a non-zero error code.
C2_SinOfTwoFails ==
    (Returned /\ expression \in SinTwo) => (root = NULL /\ error # 0)

\* C2, amended: unless an allocation fails, sin(a,b) compiles with error 0:
\* the parenthesis is a list, whose value is its last member, and the tree
\* is sin of it, folded to one constant.
C2_SinOfTwoIsSinOfList ==
    (Returned /\ expression \in SinTwo /\ ~run.nomem)
        => /\ phase = "compiled"
           /\ error = 0
           /\ root # NULL
           /\ run.parsed = Sym("sin", <<Num(DigitVal(expression[Len(expression) - 1]))>>)
           /\ heap[root].type = TE_CONSTANT
           /\ heap[root].value = run.parsed

C2_Witness ==
    /\ phase = "compiled"
    /\ expression = Call(Lsin, <<"1", ",", "2">>)
    /\ heap[root].value = Sym("sin", <<Num(2)>>)

\* where the token that begins at offset i of the text ends
TokenEnd(text, i) ==
    IF At(text, i) = NUL THEN i
    ELSE IF isdigit(At(text, i)) \/ At(text, i) = "." THEN strtod(text, i).end
    ELSE IF isalpha(At(text, i)) THEN IdentEnd(text, i)
    ELSE i + 1

\* C3, as the specification states it: a positive error code is the 1-based
\* offset at which the unexpected token began, or that offset counted from
\* 0 with 0 reported as 1.
C3_ErrorIsTokenStart ==
    (phase = "failed" /\ error > 0)
        => (error = run.tokStart + 1 \/ error = Max(run.tokStart, 1))

\* C3, amended: a positive error code is the offset just past the last
\* token read, that is the 1-based offset of that token's last character
\* (the length of the input when the token is the end of input), 0 being
\* reported as 1; it is the 1-based offset of the token's start only when
\* the token is one character long.
C3_ErrorIsTokenEnd ==
    (phase = "failed" /\ error > 0)
        => /\ error = Max(TokenEnd(expression, run.tokStart), 1)
           /\ (TokenEnd(expression, run.tokStart) = run.tokStart + 1
                  => error = run.tokStart + 1)
           /\ (At(expression, run.tokStart) = NUL
                  => error = Max(Len(expression), 1))

\* a failure at a token of more than one character
C3_Witness ==
    /\ phase = "failed"
    /\ error > 0
    /\ TokenEnd(expression, run.tokStart) > run.tokStart + 1
    /\ error = TokenEnd(expression, run.tokStart)

\* C4: te_compile returns a tree if and only if it sets *error to 0; when
\* it fails there is no tree and *error is not 0, and te_interp returns NaN.
C4_AllOrNothing ==
    /\ Returned => ((root # NULL) <=> (error = 0))
    /\ phase = "failed" => (root = NULL /\ error # 0)
    /\ phase = "compiled" => (root \in 1..Len(heap) /\ heap[root].live)
    /\ (phase = "interp" /\ error # 0) => result = NAN

\* a failure after nodes were built
C4_Witness ==
    /\ phase = "failed"
    /\ root = NULL
    /\ error > 0
    /\ run.nalloc > 1

\* C5: when te_compile returns no tree, every node new_expr allocated
\* during the call has been freed.
C5_NoLeakOnFailure ==
    /\ phase = "failed" => AllFreed
    /\ (phase = "interp" /\ error # 0) => AllFreed

\* a failure in the last argument of the innermost of MaxDepth nested calls
C5_Witness ==
    /\ phase = "failed"
    /\ expression \in Nested(MaxDepth) \ Nested(MaxDepth - 1)
    /\ ~run.nomem
    /\ Len(heap) > MaxDepth
    /\ AllFreed

\* C6, as the specification states it: every pointer te_free is given
\* during a call is null or a live node of this call: no slot of params[]
\* that was never assigned is freed, no pointer that is no node, and no
\* node twice.
C6_NoInvalidOrDoubleFree ==
    ~run.uninitRead /\ ~run.invalidFree /\ ~run.doubleFree

\* C7, as the specification states it: a function of arity 1 or more that
\* is followed by a token other than "(" fails to compile.
C7_FunctionNeedsParenthesis ==
    (Returned /\ expression \in Arity1Bare \cup Arity2Bare)
        => (root = NULL /\ error # 0)

\* C7, amended: a function of arity 2 or more that is followed by a token
\* other than "(" fails to compile; a function of arity 1 needs no
\* parenthesis, its argument is the power operand that follows it, so that
\* unless an allocation fails "sin 1" compiles to sin(1).
C7_ParenthesisFromArityTwo ==
    /\ (Returned /\ expression \in Arity2Bare) => (root = NULL /\ error # 0)
    /\ (Returned /\ expression \in Arity1Bare /\ ~run.nomem)
          => (phase = "compiled" /\ error = 0)
    /\ \A a \in Digit1 :
          (Returned /\ expression = Lsin \o <<" ">> \o a /\ ~run.nomem)
              => run.parsed = Sym("sin", <<Num(DigitVal(a[1]))>>)

C7_Witness ==
    /\ phase = "compiled"
    /\ expression = Lsin \o <<" ", "1">>
    /\ run.parsed = Sym("sin", <<Num(1)>>)

\* the caller's table has an entry of this name
HasName(tbl, name) == \E k \in 1..Len(tbl) : tbl[k].name = name

\* the first of them
FirstNamed(tbl, name) ==
    tbl[CHOOSE k \in 1..Len(tbl) :
            /\ tbl[k].name = name
            /\ \A j \in 1..(k - 1) : tbl[j].name # name]

\* C8: an identifier that names an entry of the caller's table resolves to
\* the first such entry in table order, whether or not a builtin has the
\* name; it resolves to the builtin only when the table has no entry of
\* exactly that name.
C8_Shadowing ==
    /\ (phase = "compiled" /\ expression = Lpi)
          => IF HasName(variables, Lpi)
             THEN /\ heap[root].type = TE_VARIABLE
                  /\ heap[root].bound = FirstNamed(variables, Lpi).address
             ELSE /\ heap[root].type = TE_CONSTANT
                  /\ heap[root].value = Sym("pi", <<>>)
    /\ (phase = "compiled" /\ expression = Call(Lsin, <<"x">>))
          => IF HasName(variables, Lsin)
             THEN heap[root].function = FirstNamed(variables, Lsin).address
             ELSE heap[root].function = "sin"
    /\ (Returned /\ expression = <<"x">> /\ ~HasName(variables, <<"x">>))
          => phase = "failed"

\* two entries named pi, the second one the first of the table's order
C8_Witness ==
    /\ phase = "compiled"
    /\ expression = Lpi
    /\ variables = <<VarPi2, VarPi>>
    /\ heap[root].type = TE_VARIABLE
    /\ heap[root].bound = "ay"

\* no node of the call is a variable, and every function node is pure
OnlyPureConstants ==
    \A n \in 1..Len(heap) :
        /\ TYPE_MASK(heap[n].type) # TE_VARIABLE
        /\ (IS_FUNCTION(heap[n].type) \/ IS_CLOSURE(heap[n].type))
              => IS_PURE(heap[n].type)

\* C9: after a successful te_compile of an expression with no variable and
\* only pure operators and functions, the tree is one constant node that
\* holds the value of the expression, and every other node is freed; the
\* tree of "1+2*3" is the constant 7.
C9_ConstantFolding ==
    /\ (phase = "compiled" /\ OnlyPureConstants)
          => /\ heap[root].type = TE_CONSTANT
             /\ heap[root].value = run.parsed
             /\ \A n \in 1..Len(heap) : heap[n].live <=> n = root
    /\ (phase = "compiled" /\ expression = <<"1", "+", "2", "*", "3">>)
          => heap[root].value = Num(7)

C9_Witness ==
    /\ phase = "compiled"
    /\ expression = <<"1", "+", "2", "*", "3">>
    /\ Len(heap) = 5
    /\ heap[root].type = TE_CONSTANT
    /\ heap[root].value = Num(7)
    /\ \A n \in 1..Len(heap) : heap[n].live <=> n = root

\* a digit, an operator, a digit, an operator, a digit
IsChain3(e) ==
    /\ Len(e) = 5
    /\ \A i \in {1, 3, 5} : isdigit(e[i])
    /\ \A i \in {2, 4} : <<e[i]>> \in Operators

OperatorFunction(c) ==
    CASE c = "+" -> "add" [] c = "-" -> "sub" [] c = "*" -> "mul" [] c = "^" -> "pow"

\* the precedence levels: additive, multiplicative, power
Level(c) == IF c = "+" \/ c = "-" THEN 1 ELSE IF c = "*" THEN 2 ELSE 3

ValueOf(c) == Num(DigitVal(c))

\* a o1 b o2 c: o2 takes b only if it binds tighter than o1, otherwise the
\* chain groups to the left
Grouped(e) ==
    IF Level(e[4]) > Level(e[2])
    THEN Apply(OperatorFunction(e[2]),
               <<ValueOf(e[1]),
                 Apply(OperatorFunction(e[4]), <<ValueOf(e[3]), ValueOf(e[5])>>)>>)
    ELSE Apply(OperatorFunction(e[4]),
               <<Apply(OperatorFunction(e[2]), <<ValueOf(e[1]), ValueOf(e[3])>>),
                 ValueOf(e[5])>>)

\* C10: operators of one level group to the left, the power operator
\* included, and an operator of a higher level binds tighter: 2-3-4 is -5,
\* 2^3^2 is 64.
C10_LeftAssociative ==
    /\ (phase = "interp" /\ error = 0 /\ IsChain3(expression))
          => result = Grouped(expression)
    /\ (phase = "compiled" /\ IsChain3(expression))
          => run.parsed = Grouped(expression)
    /\ (phase = "interp" /\ error = 0 /\ expression = <<"2", "-", "3", "-", "4">>)
          => result = Num(0 - 5)
    /\ (phase = "interp" /\ error = 0 /\ expression = <<"2", "^", "3", "^", "2">>)
          => result = Num(64)
    /\ (phase = "interp" /\ error = 0 /\ expression = <<"2", "+", "3", "*", "4">>)
          => result = Num(14)

C10_Witness ==
    /\ phase = "interp"
    /\ error = 0
    /\ expression = <<"2", "-", "3", "-", "4">>
    /\ result = Num(0 - 5)

\* an operand of the caller's variable x or of one digit
IsOperand(c) == c = "x" \/ isdigit(c)

\* x alone, or operand operator operand with x among the operands
IsVariableExpression(e) ==
    \/ e = <<"x">>
    \/ /\ Len(e) = 3
       /\ IsOperand(e[1]) /\ IsOperand(e[3])
       /\ <<e[2]>> \in Operators
       /\ (e[1] = "x" \/ e[3] = "x")

\* the value of an operand when x holds v
OperandValue(c, v) == IF c = "x" THEN v ELSE Num(DigitVal(c))

\* the value of such an expression when x holds v
VariableExpressionValue(e, v) ==
    IF Len(e) = 1 THEN v
    ELSE Apply(OperatorFunction(e[2]), <<OperandValue(e[1], v), OperandValue(e[3], v)>>)

\* C11: every te_eval of a compiled tree returns the value computed from
\* what the variable x holds at the moment of that te_eval, whatever was
\* written to x since te_compile; and in a compiled tree no variable node
\* has been folded away: each one allocated is still live.
C11_VariablesReadAtEval ==
    /\ [](phase = "compiled"
             => \A n \in 1..Len(heap) :
                   (heap[n].type = TE_VARIABLE /\ heap[n].bound # "none")
                       => heap[n].live)
    /\ [][(TeEval /\ IsVariableExpression(expression) /\ HasName(variables, <<"x">>))
             => result' = VariableExpressionValue(expression,
                              vmem[FirstNamed(variables, <<"x">>).address])]_vars

\* x was 2 at te_compile, 5 was written to it, and te_eval of x*3 gives 15
C11_Witness ==
    /\ phase = "compiled"
    /\ expression = <<"x", "*", "3">>
    /\ vmem["ax"] = Num(5)
    /\ result = Num(15)
    /\ run.parsed = Num(6)

RECURSIVE Descendants(_, _)
\* the nodes of the subtree of node n in the heap h
Descendants(h, n) ==
    {n} \cup UNION {Descendants(h, h[n].parameters[i]) : i \in 1..ARITY(h[n].type)}

\* a function or closure node not flagged pure
IsImpureCall(type) == (IS_FUNCTION(type) \/ IS_CLOSURE(type)) /\ ~IS_PURE(type)

\* C12: optimize leaves a node that is not flagged pure, and every node of
\* its subtree, as the parser built it, also under a pure ancestor: with
\* sin registered by the caller without the pure flag, the 2*3 of sin(2*3)
\* stays a live mul node with its two constants.
C12_ImpureSubtreeUntouched ==
    /\ phase = "compiled"
          => \A n \in 1..Len(run.built) :
                IsImpureCall(run.built[n].type)
                    => \A k \in Descendants(run.built, n) : heap[k] = run.built[k]
    /\ (phase = "compiled" /\ HasName(variables, Lsin)
        /\ expression \in {pre \o Call(Lsin, <<"2", "*", "3">>) :
                              pre \in {<<>>, <<"1", "+">>, <<"2", "*", "3", "+">>}})
          => \E n \in 1..Len(heap) :
                /\ heap[n].live
                /\ IsImpureCall(heap[n].type)
                /\ heap[n].function = "user_sin"
                /\ heap[heap[n].parameters[1]].live
                /\ heap[heap[n].parameters[1]].type = F2P
                /\ heap[heap[n].parameters[1]].function = "mul"

\* the impure call under a pure add, beside a 2*3 that was folded
C12_Witness ==
    /\ phase = "compiled"
    /\ variables = <<VarX, FunSin>>
    /\ expression = <<"2", "*", "3", "+">> \o Call(Lsin, <<"2", "*", "3">>)
    /\ heap[root].function = "add"
    /\ heap[heap[root].parameters[1]].type = TE_CONSTANT
    /\ heap[heap[root].parameters[1]].value = Num(6)
    /\ IsImpureCall(heap[heap[root].parameters[2]].type)
    /\ heap[heap[heap[root].parameters[2]].parameters[1]].function = "mul"

\* the children of node n of the heap h: the parameters its type gives it
Children(h, n) ==
    IF n \in 1..Len(h)
    THEN {h[n].parameters[i] : i \in 1..ARITY(h[n].type)}
    ELSE {}

RECURSIVE Reach(_, _, _)
\* the pointers reached from those of S in at most k steps
Reach(h, S, k) ==
    IF k = 0 THEN S
    ELSE Reach(h, S \cup UNION {Children(h, n) : n \in S}, k - 1)

\* the parameter slots of nodes of S that hold n
ParentSlots(h, S, n) ==
    {ps \in S \X (1..7) :
        /\ ps[2] <= ARITY(h[ps[1]].type)
        /\ h[ps[1]].parameters[ps[2]] = n}

\* the nodes reached from r form a tree of allocated nodes: each has as many
\* children as its type's arity, none of them null, a constant and a variable
\* have none, r has no parent and every other node has one parent slot
TreeShaped(h, r) ==
    /\ r \in 1..Len(h)
    /\ \A n \in Reach(h, {r}, Len(h)) :
          /\ n \in 1..Len(h)
          /\ h[n].live
          /\ Len(h[n].parameters) >= ARITY(h[n].type)
          /\ h[n].type \in {TE_CONSTANT, TE_VARIABLE} => Children(h, n) = {}
          /\ (IS_FUNCTION(h[n].type) \/ IS_CLOSURE(h[n].type))
                => /\ ARITY(h[n].type) = TYPE_MASK(h[n].type) % 8
                   /\ NULL \notin Children(h, n)
          /\ Cardinality(ParentSlots(h, Reach(h, {r}, Len(h)), n))
                = IF n = r THEN 0 ELSE 1

\* C13: the tree a successful te_compile returns is a tree, before optimize
\* and after it: every call node has as many non-null children as its arity,
\* constants and variables have none, no node has two parents and the root
\* has none; te_free on the root then frees every node, none of them twice.
C13_TreeShape ==
    /\ phase = "compiled" => /\ TreeShaped(run.built, root)
                             /\ TreeShaped(heap, root)
                             /\ \A n \in 1..Len(run.built) :
                                   Len(run.built[n].parameters)
                                      = ARITY(run.built[n].type)
    /\ phase = "freed" => /\ AllFreed
                          /\ ~run.doubleFree
                          /\ ~run.invalidFree

\* a call with two children, one of them a variable, built, kept and freed
C13_Witness ==
    /\ phase = "freed"
    /\ expression = <<"x", "*", "3">>
    /\ Len(heap) = 3
    /\ AllFreed
    /\ run.built[3].type = F2P
    /\ Children(run.built, 3) = {1, 2}
    /\ TreeShaped(run.built, 3)

\* C14: the error token is final: in no call is next_token called while
\* s.type is TOK_ERROR, so a call in which the tokenizer or base set
\* TOK_ERROR ends with it and returns no tree (te_interp returns NaN and a
\* nonzero error); a tree that is returned was parsed without base's default
\* case, so it does not hold the NaN node that case creates.
C14_ErrorIsSticky ==
    /\ ~run.afterError
    /\ run.type = TOK_ERROR
          => /\ phase \in {"failed", "interp", "aborted"}
             /\ root = NULL
             /\ phase # "aborted" => error # 0
             /\ phase = "interp" => result = NAN
    /\ phase \in {"compiled", "freed"} => ~run.fallback

\* base's default case made its node on the end of input after the +, set
\* TOK_ERROR, and the call returned without another token and without a tree
C14_Witness ==
    /\ phase = "failed"
    /\ expression = <<"2", "+">>
    /\ run.fallback
    /\ run.type = TOK_ERROR
    /\ run.ntok = 3
    /\ root = NULL
    /\ error = 2
    /\ AllFreed

\* C15: te_compile returns after finitely many tokens on every input: a
\* call makes at least one and at most one more call of next_token than the
\* input has characters, and the cursor never passes the end of the input.
\* That covers a '.' without a digit, which is a number token that leaves
\* the cursor where it was (read twice, then reported), and inputs that end
\* inside a call or a parenthesis.
C15_Terminates ==
    /\ run.ntok <= Len(expression) + 1
    /\ run.next <= Len(expression)
    /\ run.tokStart <= run.next
    /\ phase # "idle" => run.ntok >= 1
    /\ (/\ Returned /\ ~run.nomem
        /\ expression # <<>> /\ expression[1] = "."
        /\ (Len(expression) = 1 \/ ~isdigit(expression[2])))
          => /\ run.ntok = 2
             /\ run.next = 0
             /\ run.type = TOK_NUMBER
             /\ root = NULL
             /\ error = 1

\* the '.' after the + was read twice without the cursor moving, and the
\* call returned with the position of the +
C15_Witness ==
    /\ phase = "failed"
    /\ expression = <<"2", "+", ".">>
    /\ run.ntok = 4
    /\ run.tokStart = 2
    /\ run.next = 2
    /\ run.type = TOK_NUMBER
    /\ error = 2
    /\ root = NULL
    /\ AllFreed

====
